---- MODULE Spec2Model ----
(***************************************************************************)
(* The file-manager MCP server (file_directory_mcp_server.py): the         *)
(* dispatcher's run loop over its input lines, handle_request, and the two *)
(* tools _list_files and _read_file over a filesystem that changes         *)
(* between requests; and the client (mcp_client.py): MCPClient driving a   *)
(* child process over its stdin and stdout pipes, main and the             *)
(* interactive session.                                                    *)
(***************************************************************************)
EXTENDS Integers, Sequences, FiniteSets, TLC

VARIABLES
    tools,      \* MCPServer.tools: the registry, in insertion order
    fs,         \* the filesystem: path -> node
    pc,         \* position of run: "read", "flush", "done", "crashed"
    line,       \* the line the loop body is working on
    stdout,     \* responses printed and not yet flushed
    nRead,      \* input lines consumed by the for loop
    nFlushed,   \* response lines flushed to the pipe
    handled,    \* whether handle_request was invoked for the current line
    process,    \* MCPClient.process: "None" or "Popen"
    self_request_id, \* MCPClient.request_id (self.request_id)
    child,      \* the child process: "none", "running", "exited"
    peer,       \* what server_command runs: "dispatcher" or "other"
    toServer,   \* the child's stdin pipe: request lines written, not yet read
    toClient,   \* the child's stdout pipe: response lines flushed, not yet read
    cpc,        \* position of the client: "idle", or "reading" inside send_request
    call,       \* the MCPClient method being executed, with the id it assigned
    ret,        \* how the last completed method ended
    sentIds,    \* the ids of the requests written to the pipe, in order
    mpc,        \* position of the caller: "api" (any caller) or a place in main
    command,    \* the last command of the interactive session
    nTerminate, \* calls of process.terminate()
    nStopped    \* "Server stopped" lines printed

\* The server's variables, and the client's.
svars == <<tools, fs, pc, line, stdout, nRead, nFlushed, handled>>
cvars == <<process, self_request_id, child, peer, toServer, toClient, cpc, call, ret,
           sentIds, mpc, command, nTerminate, nStopped>>
vars == <<svars, cvars>>

----------------------------------------------------------------------------
(* Bounds *)

\* Input lines one run consumes.
MaxLines == 4

----------------------------------------------------------------------------
(* JSON values.  A missing key is ABSENT; dict.get turns it into None,     *)
(* which json.dumps writes as null.  NONSTR is a JSON value that is not a  *)
(* string (a number); a value of shape "nonmap" is one that is no object.  *)

ABSENT == "<absent>"
NULL == "null"
NONSTR == "<number>"

\* dict.get(key) of a key that holds v, or is missing.
Get(v) == IF v = ABSENT THEN NULL ELSE v

----------------------------------------------------------------------------
(* The filesystem *)

Paths == {".", "f"}

MaxFileSize == 1048576

\* Code points of the characters the listing lines are built from.
FileEmoji == 128196
DirEmoji == 128193

NameA == <<97, 46, 116, 120, 116>>      \* a.txt
NameSub == <<115, 117, 98>>             \* sub
NameSock == <<115, 111, 99, 107>>       \* sock

NoEntries == {}
SomeEntries ==
    { [name |-> NameA, kind |-> "file", size |-> 10],
      [name |-> NameSub, kind |-> "dir", size |-> 0],
      [name |-> NameSock, kind |-> "other", size |-> 0] }
OnlyOther == { [name |-> NameSock, kind |-> "other", size |-> 0] }

Missing == [kind |-> "missing", size |-> 0, utf8 |-> TRUE, denied |-> FALSE, entries |-> NoEntries]
FileNode(sz, u, d) == [kind |-> "file", size |-> sz, utf8 |-> u, denied |-> d, entries |-> NoEntries]
DirNode(es, d) == [kind |-> "dir", size |-> 0, utf8 |-> TRUE, denied |-> d, entries |-> es]
OtherNode == [kind |-> "other", size |-> 0, utf8 |-> TRUE, denied |-> FALSE, entries |-> NoEntries]

Nodes ==
    { Missing, OtherNode,
      FileNode(10, TRUE, FALSE), FileNode(10, FALSE, FALSE), FileNode(10, TRUE, TRUE),
      FileNode(MaxFileSize, TRUE, FALSE), FileNode(MaxFileSize + 1, TRUE, FALSE),
      DirNode(NoEntries, FALSE), DirNode(SomeEntries, FALSE), DirNode(OnlyOther, FALSE),
      DirNode(SomeEntries, TRUE) }

\* The working directory "." is a directory; "f" is anything.
Filesystems == { f \in [Paths -> Nodes] : f["."].kind = "dir" }

----------------------------------------------------------------------------
(* Text.  A listing line is the sequence of its code points, so that       *)
(* sorted() is the lexicographic order on them.                            *)

RECURSIVE Digits(_)
\* str(n) of a size.
Digits(n) == IF n < 10 THEN <<48 + n>> ELSE Digits(n \div 10) \o <<48 + (n % 10)>>

\* f"📄 {item.name} ({item.stat().st_size} bytes)"
FileLine(e) ==
    <<FileEmoji, 32>> \o e.name \o <<32, 40>> \o Digits(e.size)
        \o <<32, 98, 121, 116, 101, 115, 41>>

\* f"📁 {item.name}/"
DirLine(e) == <<DirEmoji, 32>> \o e.name \o <<47>>

RECURSIVE StrLess(_, _)
\* a < b on Python strings: by code point, a proper prefix first.
StrLess(a, b) ==
    IF a = <<>> THEN b # <<>>
    ELSE IF b = <<>> THEN FALSE
    ELSE IF Head(a) # Head(b) THEN Head(a) < Head(b)
    ELSE StrLess(Tail(a), Tail(b))

RECURSIVE SortedByName(_)
\* The lines ordered by the name alone, which starts at their third character.
SortedByName(S) ==
    IF S = {} THEN <<>>
    ELSE LET m == CHOOSE x \in S :
                    \A y \in S \ {x} : StrLess(Tail(Tail(x)), Tail(Tail(y)))
         IN  <<m>> \o SortedByName(S \ {m})

RECURSIVE sorted(_)
\* sorted(files), files given as the set of its (distinct) lines.
sorted(S) ==
    IF S = {} THEN <<>>
    ELSE LET m == CHOOSE x \in S : \A y \in S \ {x} : StrLess(x, y)
         IN  <<m>> \o sorted(S \ {m})

----------------------------------------------------------------------------
(* The tools.  Each returns its text as a tuple: the message, the path     *)
(* it names, and what follows the header.                                  *)

\* Path(path) raises TypeError unless path is a string.
IsStr(path) == path \in Paths

\* The lines _list_files collects from the children of a directory.
ListingLines(node) ==
    { FileLine(e) : e \in { c \in node.entries : c.kind = "file" } }
        \cup { DirLine(e) : e \in { c \in node.entries : c.kind = "dir" } }

_list_files(path, files) ==
    IF ~IsStr(path) THEN <<"Error listing files", "TypeError", <<>>>>
    ELSE LET node == files[path] IN
         IF node.kind = "missing" THEN <<"Error: Path does not exist", path, <<>>>>
         ELSE IF node.kind # "dir" THEN <<"Error: Path is not a directory", path, <<>>>>
         ELSE IF node.denied THEN <<"Error listing files", "PermissionError", <<>>>>
         ELSE IF ListingLines(node) = {} THEN <<"Directory is empty", path, <<>>>>
         ELSE <<"Contents of", path, sorted(ListingLines(node))>>

\* The size test of the limit, taken at the limit as well.
TooLargeFromLimit(node) == node.size >= MaxFileSize
\* path_obj.stat().st_size > 1024 * 1024
TooLarge(node) == node.size > MaxFileSize

\* _read_file, step by step: the text it returns, and whether it got as far
\* as open(path_obj, 'r', encoding='utf-8').
ReadFileSteps(path, files) ==
    LET Closed(text) == [text |-> text, opened |-> FALSE]
        Opened(text) == [text |-> text, opened |-> TRUE]
    IN
    IF ~IsStr(path) THEN Closed(<<"Error reading file", "TypeError", <<>>>>)
    ELSE LET node == files[path] IN
         IF node.kind = "missing" THEN Closed(<<"Error: File does not exist", path, <<>>>>)
         ELSE IF node.kind # "file" THEN Closed(<<"Error: is not a file", path, <<>>>>)
         ELSE IF TooLarge(node)
         THEN Closed(<<"Error: File is too large (max 1MB)", path, <<>>>>)
         ELSE IF node.denied THEN Opened(<<"Error reading file", "PermissionError", <<>>>>)
         ELSE IF ~node.utf8
         THEN Opened(<<"Error: Cannot read - appears to be a binary file", path, <<>>>>)
         ELSE Opened(<<"Contents of", path, <<"content", node.size>>>>)

_read_file(path, files) == ReadFileSteps(path, files).text

----------------------------------------------------------------------------
(* Requests.  A request is the dict json.loads returns: its three keys,    *)
(* each possibly missing.  params and params.arguments carry their shape:  *)
(* "absent" (no such key), "nonmap" (a value that is no object: null, a    *)
(* number, a string, a list) or "map" (an object).                         *)

Methods == {ABSENT, NONSTR, "initialize", "tools/list", "tools/call", "resources/list"}
Ids == {ABSENT, NULL, "1", "2"}
ToolNames == {ABSENT, "list_files", "read_file", "delete_file"}
PathValues == {ABSENT, NONSTR} \cup Paths

NoArguments(t) == [t |-> t, path |-> ABSENT]
ArgumentValues ==
    { NoArguments("absent"), NoArguments("nonmap") }
        \cup { [t |-> "map", path |-> p] : p \in PathValues }

NoParams(t) == [t |-> t, name |-> ABSENT, arguments |-> NoArguments("absent")]
ParamValues ==
    { NoParams("absent"), NoParams("nonmap") }
        \cup { [t |-> "map", name |-> n, arguments |-> a] : n \in ToolNames, a \in ArgumentValues }

\* tools/call requests carry every shape of params; the methods that never
\* read params carry one of each shape.
SomeParams ==
    { NoParams("absent"), NoParams("nonmap"),
      [t |-> "map", name |-> "list_files", arguments |-> [t |-> "map", path |-> "."]] }
Requests ==
    [method : {"tools/call"}, id : Ids, params : ParamValues]
        \cup [method : Methods, id : Ids, params : SomeParams]

\* The request {} : no key at all.
EmptyRequest == [method |-> ABSENT, id |-> ABSENT, params |-> NoParams("absent")]

\* An input line, by what line.strip() and json.loads make of it: "blank"
\* (nothing but whitespace), "malformed" (json.loads raises JSONDecodeError),
\* "toolarge" (json.loads raises another exception: ValueError on an integer
\* literal beyond the digit limit of int(), RecursionError on nesting beyond
\* the recursion limit), "nonobject" (valid JSON that is no object) or
\* "object" (a request).
Lines ==
    { [kind |-> k, request |-> EmptyRequest] :
        k \in {"blank", "malformed", "toolarge", "nonobject"} }
        \cup { [kind |-> "object", request |-> r] : r \in Requests }
NoLine == [kind |-> "none", request |-> EmptyRequest]

----------------------------------------------------------------------------
(* MCPServer *)

Descriptor(name, description) ==
    [name |-> name, description |-> description, required |-> <<"path">>]

\* self.tools as __init__ builds it: key and descriptor, in insertion order.
Registry ==
    << <<"list_files", Descriptor("list_files", "List files in a directory")>>,
       <<"read_file", Descriptor("read_file", "Read contents of a file")>> >>

\* The descriptors in reverse insertion order.
ToolsListReversed(registry) ==
    [i \in 1..Len(registry) |-> registry[Len(registry) + 1 - i][2]]
\* list(self.tools.values())
ToolsList(registry) == [i \in 1..Len(registry) |-> registry[i][2]]

InternalError == -32603
\* The unknown method reported with the code of the except branch.
MethodNotFoundAsInternal == InternalError
MethodNotFound == -32601
ParseError == -32700

\* A result response that drops the id.
ResultResponseNoId(id, result) == [jsonrpc |-> "2.0", id |-> NULL, result |-> result]
ResultResponse(id, result) == [jsonrpc |-> "2.0", id |-> id, result |-> result]
\* An error response that carries a result key as well.
ErrorResponseWithResult(id, code, message) ==
    [jsonrpc |-> "2.0", id |-> id, result |-> NULL,
     error |-> [code |-> code, message |-> message]]
ErrorResponse(id, code, message) ==
    [jsonrpc |-> "2.0", id |-> id, error |-> [code |-> code, message |-> message]]

InitializeResult ==
    [protocolVersion |-> "2024-11-05",
     capabilities |-> [tools |-> <<>>],
     serverInfo |-> [name |-> "file-manager-server", version |-> "1.0.0"]]

\* params = request.get("params", {}): a missing key gives the empty dict.
ParamsOf(request) ==
    IF request.params.t = "absent" THEN NoParams("map") ELSE request.params

\* arguments = params.get("arguments", {})
ArgumentsOf(params) ==
    IF params.arguments.t = "absent" THEN NoArguments("map") ELSE params.arguments

\* No default at the call site: a missing path stays None.
ListPathNoDefault(arguments) == Get(arguments.path)
\* arguments.get("path", "."): the default of _list_files at the call site.
ListPath(arguments) == IF arguments.path = ABSENT THEN "." ELSE arguments.path

\* result = self._list_files(arguments.get("path", "."))
CallListFiles(arguments, files) ==
    IF arguments.t # "map"
    THEN [raised |-> TRUE, value |-> <<"AttributeError", "get">>]
    ELSE [raised |-> FALSE, value |-> _list_files(ListPath(arguments), files)]

\* _read_file without its except clauses: Path(None) raises through.
CallReadFileUncaught(arguments, files) ==
    IF arguments.t # "map"
    THEN [raised |-> TRUE, value |-> <<"AttributeError", "get">>]
    ELSE IF ~IsStr(Get(arguments.path))
    THEN [raised |-> TRUE, value |-> <<"TypeError", "Path">>]
    ELSE [raised |-> FALSE, value |-> _read_file(Get(arguments.path), files)]
\* result = self._read_file(arguments.get("path"))
CallReadFile(arguments, files) ==
    IF arguments.t # "map"
    THEN [raised |-> TRUE, value |-> <<"AttributeError", "get">>]
    ELSE [raised |-> FALSE, value |-> _read_file(Get(arguments.path), files)]

\* The unknown tool reported as text, as the tools report their failures.
UnknownToolAsText(tool_name) == [raised |-> FALSE, value |-> <<"Unknown tool", tool_name, <<>>>>]
\* raise ValueError(f"Unknown tool: {tool_name}")
UnknownTool(tool_name) == [raised |-> TRUE, value |-> <<"Unknown tool", tool_name>>]

\* The tools/call branch: the text of the tool, or the exception raised.
CallTool(params, files) ==
    IF params.t # "map" THEN [raised |-> TRUE, value |-> <<"AttributeError", "get">>]
    ELSE LET tool_name == Get(params.name)
             arguments == ArgumentsOf(params)
         IN  IF tool_name = "list_files" THEN CallListFiles(arguments, files)
             ELSE IF tool_name = "read_file" THEN CallReadFile(arguments, files)
             ELSE UnknownTool(tool_name)

handle_request(request, registry, files) ==
    LET method == Get(request.method)
        params == ParamsOf(request)
        request_id == Get(request.id)
    IN  IF method = "initialize" THEN ResultResponse(request_id, InitializeResult)
        ELSE IF method = "tools/list"
        THEN ResultResponse(request_id, [tools |-> ToolsList(registry)])
        ELSE IF method = "tools/call"
        THEN LET r == CallTool(params, files) IN
             IF r.raised
             THEN ErrorResponse(request_id, InternalError, <<"Internal error", r.value>>)
             ELSE ResultResponse(request_id,
                      [content |-> << [type |-> "text", text |-> r.value] >>])
        ELSE ErrorResponse(request_id, MethodNotFound, <<"Method not found", method>>)

----------------------------------------------------------------------------
(* MCPServer.run *)

\* The response of the except json.JSONDecodeError branch.
ParseErrorResponse == ErrorResponse(NULL, ParseError, <<"Parse error">>)

\* No call, and no return value yet.
NoCall == [op |-> "none", id |-> 0, name |-> ABSENT, path |-> ABSENT]
NoOutcome ==
    [raised |-> FALSE, error |-> "",
     item |-> [kind |-> "none", contains |-> "no", value |-> [id |-> NULL]]]
NoReturn ==
    [op |-> "none", kind |-> "none", value |-> <<>>, id |-> 0, at |-> "none",
     wrote |-> FALSE, outcome |-> NoOutcome]

\* The server run by hand: no MCPClient, no pipes.
NoClient ==
    /\ process = "None"
    /\ self_request_id = 1
    /\ child = "none"
    /\ peer = "dispatcher"
    /\ toServer = <<>>
    /\ toClient = <<>>
    /\ cpc = "idle"
    /\ call = NoCall
    /\ ret = NoReturn
    /\ sentIds = <<>>
    /\ mpc = "api"
    /\ command = "none"
    /\ nTerminate = 0
    /\ nStopped = 0

Init ==
    /\ tools = Registry
    /\ fs \in Filesystems
    /\ pc = "read"
    /\ line = NoLine
    /\ stdout = <<>>
    /\ nRead = 0
    /\ nFlushed = 0
    /\ handled = FALSE
    /\ NoClient

\* for line in sys.stdin: the loop takes the next line l.
Take(l) ==
    /\ pc = "read"
    /\ nRead < MaxLines
    /\ nRead' = nRead + 1

\* if not line: continue
SkipBlank ==
    \E l \in Lines :
        /\ l.kind = "blank"
        /\ Take(l)
        /\ UNCHANGED <<tools, fs, pc, line, stdout, nFlushed, handled>>
        /\ UNCHANGED cvars

\* json.loads raises JSONDecodeError: print the parse error.
ParseFailure ==
    \E l \in Lines :
        /\ l.kind = "malformed"
        /\ Take(l)
        /\ line' = l
        /\ handled' = FALSE
        /\ stdout' = Append(stdout, ParseErrorResponse)
        /\ pc' = "flush"
        /\ UNCHANGED <<tools, fs, nFlushed>>
        /\ UNCHANGED cvars

\* The loop body of run on a line l that json.loads turns into a dict.
ServeLine(l) ==
    /\ l.kind = "object"
    /\ Take(l)
    /\ line' = l
    /\ handled' = TRUE
    /\ stdout' = Append(stdout, handle_request(l.request, tools, fs))
    /\ pc' = "flush"
    /\ UNCHANGED <<tools, fs, nFlushed>>

\* handle_request keeping session state: initialize drops a tool from the
\* registry.
ServeRequestStateful ==
    \E l \in Lines :
        /\ l.kind = "object"
        /\ Take(l)
        /\ line' = l
        /\ handled' = TRUE
        /\ stdout' = Append(stdout, handle_request(l.request, tools, fs))
        /\ pc' = "flush"
        /\ tools' = IF Get(l.request.method) = "initialize" /\ tools # <<>>
                    THEN Tail(tools) ELSE tools
        /\ UNCHANGED <<fs, nFlushed>>
        /\ UNCHANGED cvars
\* json.loads returns a dict: print(json.dumps(self.handle_request(request))).
ServeRequest ==
    \E l \in Lines : ServeLine(l) /\ UNCHANGED cvars

\* json.loads returns a value that is no dict: request.get raises
\* AttributeError before the try of handle_request, and run does not catch it.
Crash ==
    \E l \in Lines :
        /\ l.kind = "nonobject"
        /\ Take(l)
        /\ line' = l
        /\ handled' = TRUE
        /\ pc' = "crashed"
        /\ UNCHANGED <<tools, fs, stdout, nFlushed>>
        /\ UNCHANGED cvars

\* json.loads raises an exception that is no JSONDecodeError: run does not
\* catch it.
CrashInParse ==
    \E l \in Lines :
        /\ l.kind = "toolarge"
        /\ Take(l)
        /\ line' = l
        /\ handled' = FALSE
        /\ pc' = "crashed"
        /\ UNCHANGED <<tools, fs, stdout, nFlushed>>
        /\ UNCHANGED cvars

\* sys.stdout.flush(), and back to the head of the loop.
FlushStdout ==
    /\ pc = "flush"
    /\ nFlushed' = nFlushed + Len(stdout)
    /\ stdout' = <<>>
    /\ line' = NoLine
    /\ handled' = FALSE
    /\ pc' = "read"
    /\ UNCHANGED <<tools, fs, nRead>>

Flush == FlushStdout /\ UNCHANGED cvars

\* End of stream: the for loop ends and run returns.
Eof ==
    /\ pc = "read"
    /\ pc' = "done"
    /\ UNCHANGED <<tools, fs, line, stdout, nRead, nFlushed, handled>>
    /\ UNCHANGED cvars

\* The filesystem changes under the server, between two requests.
FsChange ==
    /\ pc = "read"
    /\ \E p \in Paths, n \in Nodes :
        /\ n # fs[p]
        /\ [fs EXCEPT ![p] = n] \in Filesystems
        /\ fs' = [fs EXCEPT ![p] = n]
    /\ UNCHANGED <<tools, pc, line, stdout, nRead, nFlushed, handled>>
    /\ UNCHANGED cvars

Next ==
    \/ Crash
    \/ CrashInParse
    \/ SkipBlank
    \/ ParseFailure
    \/ ServeRequest
    \/ Flush
    \/ Eof
    \/ FsChange

Spec == Init /\ [][Next]_vars

----------------------------------------------------------------------------
(* MCPClient: the lines on the two pipes *)

\* json.dumps of a request id, an int: its decimal text.
IdText(n) == <<"1", "2", "3", "4", "5", "6", "7", "8", "9">>[n]

\* The params each method of MCPClient passes to send_request.  initialize
\* passes a mapping with neither name nor arguments; list_tools passes None,
\* which send_request leaves out; call_tool passes name and arguments, the
\* arguments being {} or {"path": path}.
ClientParams(c) ==
    IF c.op = "initialize" THEN NoParams("map")
    ELSE IF c.op = "call_tool"
    THEN [t |-> "map", name |-> c.name, arguments |-> [t |-> "map", path |-> c.path]]
    ELSE NoParams("absent")

ClientMethod(c) ==
    IF c.op = "initialize" THEN "initialize"
    ELSE IF c.op = "call_tool" THEN "tools/call"
    ELSE IF c.op = "list_tools" THEN "tools/list"
    ELSE c.name

\* A request written with the id the counter holds after its increment.
RequestLineNextId(c) ==
    [kind |-> "object",
     request |-> [method |-> ClientMethod(c), id |-> IdText(c.id + 1),
                  params |-> ClientParams(c)]]
\* json.dumps(request) + "\n" as the child's json.loads reads it.
RequestLine(c) ==
    [kind |-> "object",
     request |-> [method |-> ClientMethod(c), id |-> IdText(c.id), params |-> ClientParams(c)]]

\* A line on the child's stdout, by what json.loads and the test
\* "result" in response make of it: "garbage" (json.loads raises), "nonobject"
\* (a JSON value that is no object, in which the test is true, false, or
\* raises TypeError) or "object" (a dict).
ObjectLine(r) == [kind |-> "object", contains |-> "key", value |-> r]
OtherLine(k, c) == [kind |-> k, contains |-> c, value |-> [id |-> NULL]]

\* What a child that is not the dispatcher may answer.
PeerLines ==
    { OtherLine("garbage", "no"),
      OtherLine("nonobject", "yes"), OtherLine("nonobject", "no"),
      OtherLine("nonobject", "typeerror") }
    \cup { ObjectLine(r) : r \in
            { [id |-> NULL],
              [id |-> NULL, error |-> [code |-> InternalError]],
              [id |-> NULL, error |-> [code |-> InternalError, message |-> <<"failed">>]] } }
    \cup { ObjectLine(r) : r \in
            { [id |-> NULL, result |-> [other |-> <<>>]],
              [id |-> NULL, result |-> [tools |-> <<>>]],
              [id |-> NULL, result |-> [tools |-> << [title |-> "nameless"] >>]],
              [id |-> NULL, result |-> [content |-> <<>>]],
              [id |-> NULL, result |-> [content |-> << [type |-> "text"] >>]],
              [id |-> NULL, result |-> [content |-> << [type |-> "text", text |-> <<"hello">>] >>]] } }

----------------------------------------------------------------------------
(* MCPClient: what the methods make of the outcome of send_request.  An    *)
(* outcome is the exception send_request raised, or the line it read.      *)

Raised(e) == [raised |-> TRUE, error |-> e, item |-> OtherLine("garbage", "no")]
Read(item) ==
    IF item.kind = "garbage"
    THEN [raised |-> TRUE, error |-> "JSONDecodeError", item |-> item]
    ELSE [raised |-> FALSE, error |-> "", item |-> item]

\* "result" in response: "yes", "no" or "typeerror".
ResultIn(item) ==
    IF item.kind = "object"
    THEN IF "result" \in DOMAIN item.value THEN "yes" ELSE "no"
    ELSE item.contains

Returns(op, kind, value) == [op |-> op, kind |-> kind, value |-> value]

\* send_request called by the caller itself: the response, or the exception.
send_request(o) ==
    IF o.raised THEN Returns("send_request", "raise", <<o.error>>)
    ELSE Returns("send_request", "response", o.item)

\* initialize: True on a response with result, False otherwise and on any
\* exception.
initialize(o) ==
    IF o.raised THEN Returns("initialize", "bool", FALSE)
    ELSE Returns("initialize", "bool", ResultIn(o.item) = "yes")

\* list_tools: response["result"]["tools"], [] otherwise and on any exception.
list_tools(o) ==
    IF o.raised \/ ResultIn(o.item) # "yes" THEN Returns("list_tools", "list", <<>>)
    ELSE IF o.item.kind # "object" THEN Returns("list_tools", "list", <<>>)
    ELSE IF "tools" \notin DOMAIN o.item.value.result THEN Returns("list_tools", "list", <<>>)
    ELSE Returns("list_tools", "list", o.item.value.result.tools)

\* call_tool: content[0]["text"], the fallback for empty content, the error
\* message of an error response, or the text of the exception caught.
call_tool(o) ==
    LET Caught(e) == Returns("call_tool", "text", <<"Error calling tool", e>>) IN
    IF o.raised THEN Caught(o.error)
    ELSE IF ResultIn(o.item) = "typeerror" THEN Caught("TypeError")
    ELSE IF ResultIn(o.item) = "yes"
    THEN IF o.item.kind # "object" THEN Caught("TypeError")
         ELSE IF "content" \notin DOMAIN o.item.value.result THEN Caught("KeyError")
         ELSE IF o.item.value.result.content = <<>>
         THEN Returns("call_tool", "text", <<"No content returned">>)
         ELSE IF "text" \notin DOMAIN o.item.value.result.content[1] THEN Caught("KeyError")
         ELSE Returns("call_tool", "text", o.item.value.result.content[1].text)
    ELSE IF o.item.kind # "object" THEN Caught("AttributeError")
    ELSE IF "error" \notin DOMAIN o.item.value
    THEN Returns("call_tool", "text", <<"Error", "Unknown error">>)
    ELSE IF "message" \notin DOMAIN o.item.value.error
    THEN Returns("call_tool", "text", <<"Error", "Unknown error">>)
    ELSE Returns("call_tool", "text", <<"Error", o.item.value.error.message>>)

\* What the method c.op returns on outcome o.
MethodReturns(c, o) ==
    IF c.op = "initialize" THEN initialize(o)
    ELSE IF c.op = "list_tools" THEN list_tools(o)
    ELSE IF c.op = "call_tool" THEN call_tool(o)
    ELSE send_request(o)

----------------------------------------------------------------------------
(* MCPClient and main: the session *)

\* Calls of stop_server the caller of the class makes.
MaxStops == 2

\* The calls a caller makes: the three methods, and send_request itself with
\* a method of its choice.  call_tool is called with the arguments {} or
\* {"path": path}.
Calls ==
    [op : {"initialize", "list_tools"}, name : {ABSENT}, path : {ABSENT}]
        \cup { [op |-> "call_tool", name |-> "list_files", path |-> ABSENT],
               [op |-> "call_tool", name |-> "list_files", path |-> "."],
               [op |-> "call_tool", name |-> "read_file", path |-> "f"],
               [op |-> "call_tool", name |-> "delete_file", path |-> "f"] }
        \cup [op : {"send_request"}, name : {"resources/list"}, path : {ABSENT}]

\* The command of interactive_session that makes the call c.
CommandOf(c) ==
    IF c.op = "list_tools" THEN "list"
    ELSE IF c.name = "list_files" THEN "ls"
    ELSE "cat"

\* The calls main and interactive_session make where they stand; a caller of
\* the class makes any.
MayCall(c) ==
    \/ mpc = "api"
    \/ mpc = "init" /\ c.op = "initialize"
    \/ mpc = "list" /\ c.op = "list_tools"
    \/ mpc = "demo" /\ c.op = "call_tool" /\ c.name = "list_files" /\ c.path = "."
    \/ /\ mpc = "interactive"
       /\ \/ c.op = "list_tools"
          \/ c.op = "call_tool" /\ c.name \in {"list_files", "read_file"} /\ c.path \in Paths

\* for tool in tools: tool['name'] raises KeyError on a tool without a name.
Nameless(ts) == \E i \in 1..Len(ts) : "name" \notin DOMAIN ts[i]

\* Where main stands once a call has returned r.  main returns when
\* initialize gives False and lets the KeyError of its print loop escape;
\* interactive_session catches every Exception and loops.
AfterCallFailFast(m, r) ==
    IF m = "init" THEN (IF r.value THEN "list" ELSE "finally")
    ELSE IF m = "list" THEN (IF Nameless(r.value) THEN "finally" ELSE "demo")
    ELSE IF m = "demo" THEN "interactive"
    ELSE IF m = "interactive"
    THEN (IF r.outcome.raised \/ ResultIn(r.outcome.item) # "yes" THEN "finally" ELSE m)
    ELSE m
AfterCall(m, r) ==
    IF m = "init" THEN (IF r.value THEN "list" ELSE "finally")
    ELSE IF m = "list" THEN (IF Nameless(r.value) THEN "finally" ELSE "demo")
    ELSE IF m = "demo" THEN "interactive"
    ELSE m

\* if not self.process
NotStarted(p) == p = "None"

\* self.request_id += 1
NextRequestIdSame(n) == n
NextRequestId(n) == n + 1

\* stdin.write and flush reach the pipe only while the child holds its end;
\* otherwise they raise BrokenPipeError.
WritableAlways(c) == TRUE
Writable(c) == c = "running"

\* readline takes the first line off the child's stdout.
AfterReadlinePeek(q) == q
AfterReadline(q) == Tail(q)

\* The method of call c returns (or raises) on outcome o; at is the state of
\* the child when the call began, wrote whether the request reached the pipe.
Return(c, o, at, wrote) ==
    LET r == MethodReturns(c, o)
        log == [op |-> r.op, kind |-> r.kind, value |-> r.value, id |-> c.id,
                at |-> at, wrote |-> wrote, outcome |-> o]
    IN  /\ ret' = log
        /\ cpc' = "idle"
        /\ call' = NoCall
        /\ mpc' = AfterCall(mpc, log)

WithId(c, n) == [op |-> c.op, id |-> n, name |-> c.name, path |-> c.path]

Commanded(c) == command' = IF mpc = "interactive" THEN CommandOf(c) ELSE command

\* What the child process is once it has exited: nothing of it is left.
ChildGone ==
    /\ child' = "exited"
    /\ pc' = IF peer = "dispatcher" THEN "killed" ELSE pc
    /\ line' = NoLine
    /\ stdout' = <<>>
    /\ handled' = FALSE
    /\ toServer' = <<>>
    /\ UNCHANGED <<tools, fs, nRead, nFlushed>>

\* The directory a session runs in: some entries in ".", and "f" a readable
\* file or nothing.
SessionFilesystems ==
    { f \in Filesystems :
        /\ f["."] = DirNode(SomeEntries, FALSE)
        /\ f["f"] \in {Missing, FileNode(10, TRUE, FALSE)} }

InitSession ==
    /\ tools = Registry
    /\ fs \in SessionFilesystems
    /\ pc = "off"
    /\ line = NoLine
    /\ stdout = <<>>
    /\ nRead = 0
    /\ nFlushed = 0
    /\ handled = FALSE
    /\ process = "None"
    /\ self_request_id = 1
    /\ child = "none"
    /\ peer \in {"dispatcher", "other"}
    /\ toServer = <<>>
    /\ toClient = <<>>
    /\ cpc = "idle"
    /\ call = NoCall
    /\ ret = NoReturn
    /\ sentIds = <<>>
    /\ mpc \in {"api", "start"}
    /\ command = "none"
    /\ nTerminate = 0
    /\ nStopped = 0

\* start_server: Popen gives a child.  A caller starts a child only when
\* none is running.
StartServer ==
    /\ cpc = "idle"
    /\ \/ mpc = "start"
       \/ mpc = "api" /\ child # "running"
    /\ process' = "Popen"
    /\ child' = "running"
    /\ pc' = IF peer = "dispatcher" THEN "read" ELSE pc
    /\ line' = NoLine
    /\ stdout' = <<>>
    /\ handled' = FALSE
    /\ nRead' = 0
    /\ nFlushed' = 0
    /\ toServer' = <<>>
    /\ toClient' = <<>>
    /\ mpc' = IF mpc = "start" THEN "init" ELSE mpc
    /\ UNCHANGED <<tools, fs, self_request_id, peer, cpc, call, ret, sentIds, command,
                   nTerminate, nStopped>>

\* start_server: Popen raises, start_server returns False and main returns.
StartServerFails ==
    /\ cpc = "idle"
    /\ mpc = "start"
    /\ mpc' = "finally"
    /\ UNCHANGED svars
    /\ UNCHANGED <<process, self_request_id, child, peer, toServer, toClient, cpc, call,
                   ret, sentIds, command, nTerminate, nStopped>>

\* send_request on a client that was never started: RuntimeError before
\* anything else.
CallNotStarted ==
    \E c \in Calls :
        /\ cpc = "idle"
        /\ MayCall(c)
        /\ NotStarted(process)
        /\ Return(WithId(c, 0), Raised("RuntimeError: Server not started"), child, FALSE)
        /\ Commanded(c)
        /\ UNCHANGED svars
        /\ UNCHANGED <<process, self_request_id, child, peer, toServer, toClient, sentIds,
                       nTerminate, nStopped>>

\* send_request: the id is taken and the counter moved on, then the write
\* fails.
CallBrokenPipe ==
    \E c \in Calls :
        /\ cpc = "idle"
        /\ MayCall(c)
        /\ ~NotStarted(process)
        /\ self_request_id <= MaxLines
        /\ ~Writable(child)
        /\ self_request_id' = NextRequestId(self_request_id)
        /\ Return(WithId(c, self_request_id), Raised("BrokenPipeError"), child, FALSE)
        /\ Commanded(c)
        /\ UNCHANGED svars
        /\ UNCHANGED <<process, child, peer, toServer, toClient, sentIds,
                       nTerminate, nStopped>>

\* send_request: the id is taken and the counter moved on, the request
\* written and flushed; the call now waits in readline.
CallWrite ==
    \E c \in Calls :
        /\ cpc = "idle"
        /\ MayCall(c)
        /\ ~NotStarted(process)
        /\ self_request_id <= MaxLines
        /\ Writable(child)
        /\ self_request_id' = NextRequestId(self_request_id)
        /\ toServer' = Append(toServer, RequestLine(WithId(c, self_request_id)))
        /\ sentIds' = Append(sentIds, self_request_id)
        /\ call' = WithId(c, self_request_id)
        /\ cpc' = "reading"
        /\ Commanded(c)
        /\ UNCHANGED svars
        /\ UNCHANGED <<process, child, peer, toClient, ret, mpc, nTerminate, nStopped>>

\* readline gives a line; json.loads of it is what send_request returns.
ReadResponse ==
    /\ cpc = "reading"
    /\ toClient # <<>>
    /\ toClient' = AfterReadline(toClient)
    /\ Return(call, Read(Head(toClient)), "running", TRUE)
    /\ UNCHANGED svars
    /\ UNCHANGED <<process, self_request_id, child, peer, toServer, sentIds, command,
                   nTerminate, nStopped>>

\* readline gives '' at end of stream: RuntimeError.
ReadEof ==
    /\ cpc = "reading"
    /\ toClient = <<>>
    /\ child = "exited"
    /\ Return(call, Raised("RuntimeError: No response from server"), "running", TRUE)
    /\ UNCHANGED svars
    /\ UNCHANGED <<process, self_request_id, child, peer, toServer, toClient, sentIds,
                   command, nTerminate, nStopped>>

\* stop_server: terminate and wait on self.process if there is one, and
\* print that the server stopped.  self.process is left as it was.  main
\* calls it in its finally clause and ends.
StopServer ==
    /\ cpc = "idle"
    /\ \/ mpc = "finally"
       \/ mpc = "api" /\ nStopped < MaxStops
    /\ IF process = "Popen"
       THEN /\ nTerminate' = nTerminate + 1
            /\ nStopped' = nStopped + 1
            /\ ChildGone
       ELSE UNCHANGED <<svars, child, toServer, nTerminate, nStopped>>
    /\ mpc' = IF mpc = "finally" THEN "exited" ELSE mpc
    /\ UNCHANGED <<process, self_request_id, peer, toClient, cpc, call, ret, sentIds,
                   command>>

\* The child exits by itself or is killed from outside.
ChildExits ==
    /\ child = "running"
    /\ ChildGone
    /\ UNCHANGED <<process, self_request_id, peer, toClient, cpc, call, ret, sentIds,
                   mpc, command, nTerminate, nStopped>>

\* The dispatcher as the child: run reads the next line of its stdin.
ChildServe ==
    /\ child = "running"
    /\ peer = "dispatcher"
    /\ toServer # <<>>
    /\ ServeLine(Head(toServer))
    /\ toServer' = Tail(toServer)
    /\ UNCHANGED <<process, self_request_id, child, peer, toClient, cpc, call, ret,
                   sentIds, mpc, command, nTerminate, nStopped>>

\* The dispatcher as the child: the flushed line arrives on the pipe.
ChildFlush ==
    /\ child = "running"
    /\ peer = "dispatcher"
    /\ FlushStdout
    /\ toClient' = toClient \o [i \in 1..Len(stdout) |-> ObjectLine(stdout[i])]
    /\ UNCHANGED <<process, self_request_id, child, peer, toServer, cpc, call, ret,
                   sentIds, mpc, command, nTerminate, nStopped>>

\* Another program as the child: it answers a request with some line.
PeerAnswers ==
    /\ child = "running"
    /\ peer = "other"
    /\ toServer # <<>>
    /\ toServer' = Tail(toServer)
    /\ \E l \in PeerLines : toClient' = Append(toClient, l)
    /\ UNCHANGED svars
    /\ UNCHANGED <<process, self_request_id, child, peer, cpc, call, ret, sentIds, mpc,
                   command, nTerminate, nStopped>>

\* Another program as the child: it takes a request and answers nothing.
PeerSilent ==
    /\ child = "running"
    /\ peer = "other"
    /\ toServer # <<>>
    /\ toServer' = <<>>
    /\ UNCHANGED svars
    /\ UNCHANGED <<process, self_request_id, child, peer, toClient, cpc, call, ret,
                   sentIds, mpc, command, nTerminate, nStopped>>

\* interactive_session: a command that makes no call.  An empty line, an
\* unknown command, cat without a path: a message at most, and the next
\* prompt.  input() raising EOFError is caught as any Exception is.
Command ==
    /\ mpc = "interactive"
    /\ cpc = "idle"
    /\ \E c \in {"empty", "unknown", "cat_nopath", "eof"} : command' = c
    /\ UNCHANGED svars
    /\ UNCHANGED <<process, self_request_id, child, peer, toServer, toClient, cpc, call,
                   ret, sentIds, mpc, nTerminate, nStopped>>

\* interactive_session: quit breaks the loop; main goes on to its finally.
Quit ==
    /\ mpc = "interactive"
    /\ cpc = "idle"
    /\ command' = "quit"
    /\ mpc' = "finally"
    /\ UNCHANGED svars
    /\ UNCHANGED <<process, self_request_id, child, peer, toServer, toClient, cpc, call,
                   ret, sentIds, nTerminate, nStopped>>

\* KeyboardInterrupt while main's try block runs, a call under way or not:
\* interactive_session breaks, main catches it; either way the finally.
Interrupt ==
    /\ mpc \in {"start", "init", "list", "demo", "interactive"}
    /\ command' = "interrupt"
    /\ mpc' = "finally"
    /\ cpc' = "idle"
    /\ call' = NoCall
    /\ UNCHANGED svars
    /\ UNCHANGED <<process, self_request_id, child, peer, toServer, toClient, ret,
                   sentIds, nTerminate, nStopped>>

NextSession ==
    \/ StartServer
    \/ StartServerFails
    \/ CallNotStarted
    \/ CallBrokenPipe
    \/ CallWrite
    \/ ReadResponse
    \/ ReadEof
    \/ StopServer
    \/ ChildExits
    \/ ChildServe
    \/ ChildFlush
    \/ PeerAnswers
    \/ PeerSilent
    \/ Command
    \/ Quit
    \/ Interrupt

Session == InitSession /\ [][NextSession]_vars

----------------------------------------------------------------------------
(* What the properties speak of *)

\* A response has been printed for the current line and waits for its flush.
Printed == pc = "flush" /\ stdout # <<>>
\* The response printed for the current line.
Response == stdout[Len(stdout)]
\* The current line was a request object, answered by handle_request.
Served == Printed /\ line.kind = "object"
Request == line.request

HasResult(r) == "result" \in DOMAIN r
HasError(r) == "error" \in DOMAIN r

----------------------------------------------------------------------------
(* C1: every response the dispatcher prints, from handle_request or from   *)
(* the parse-error branch of run, has exactly one of the keys result and   *)
(* error.                                                                  *)
C1_ExactlyOneOfResultError ==
    \A i \in 1..Len(stdout) : HasResult(stdout[i]) # HasError(stdout[i])

\* A tools/call request answered with an error response.
C1_Witness ==
    /\ Served
    /\ Request.method = "tools/call"
    /\ HasError(Response)

(* C2: the response to a request object carries the request's id, null     *)
(* when the request has none; the response to a line that fails to parse   *)
(* has id null.                                                            *)
C2_IdEcho ==
    /\ Served =>
        Response.id = (IF Request.id = ABSENT THEN NULL ELSE Request.id)
    /\ (Printed /\ line.kind = "malformed") => Response.id = NULL

\* A tool call with id "2" answered with a result.
C2_Witness ==
    /\ Served
    /\ Request.id = "2"
    /\ Request.method = "tools/call"
    /\ HasResult(Response)

(* C3: the number of response lines written equals the number of input     *)
(* lines consumed, each response being printed and flushed before the next *)
(* line is read: whenever run is at the head of its loop or has stopped,   *)
(* every consumed line has its flushed response; while a response waits    *)
(* for its flush, it is the only one missing.                              *)
C3_OneResponsePerLine ==
    /\ pc \in {"read", "done", "crashed"} => nFlushed = nRead /\ stdout = <<>>
    /\ pc = "flush" => nFlushed + Len(stdout) = nRead /\ Len(stdout) = 1

(* C4: the dispatcher stops serving only at end-of-stream: no input line   *)
(* takes run out of its loop.                                              *)
C4_StopsOnlyAtEof == pc # "crashed"

\* json.loads raised on the current line.
FailedToParse == line.kind \in {"malformed", "toolarge"}

(* C5: a line that fails to parse gets exactly one response, the error     *)
(* -32700 with id null; handle_request is not invoked for it; and once     *)
(* that response is flushed run is back at the head of its loop with       *)
(* nothing of the line kept: an empty buffer, no current line, the         *)
(* registry and the filesystem as they were.                               *)
C5_ParseFailureAnswered ==
    /\ [](FailedToParse =>
            /\ pc = "flush"
            /\ Len(stdout) = 1
            /\ HasError(Response) /\ ~HasResult(Response)
            /\ Response.error.code = ParseError
            /\ Response.id = NULL
            /\ ~handled)
    /\ [][FailedToParse =>
            /\ pc' = "read"
            /\ stdout' = <<>>
            /\ line' = NoLine
            /\ nFlushed' = nFlushed + 1
            /\ nRead' = nRead
            /\ tools' = tools
            /\ fs' = fs]_vars

\* The request calls list_files or read_file through tools/call.
CallsRegisteredTool ==
    /\ Served
    /\ Request.method = "tools/call"
    /\ Request.params.t = "map"
    /\ Request.params.name \in {"list_files", "read_file"}

\* A result of exactly one content item, of type "text".
IsTextResult(r) ==
    /\ HasResult(r) /\ ~HasError(r)
    /\ DOMAIN r.result = {"content"}
    /\ Len(r.result.content) = 1
    /\ r.result.content[1].type = "text"

(* C6, as claimed: every tools/call of list_files or read_file yields a    *)
(* result of one text item and never an error, whatever params.arguments   *)
(* is.                                                                     *)
C6_AlwaysTextResult == CallsRegisteredTool => IsTextResult(Response)

(* C6, amended: every tools/call of list_files or read_file whose          *)
(* params.arguments is absent or a mapping yields a result of one text     *)
(* item and never an error, for every value of path (absent and            *)
(* non-string included) and every filesystem state; when params.arguments  *)
(* is present and is not a mapping, the response is the error -32603.      *)
C6_TextResultForMappingArguments ==
    CallsRegisteredTool =>
        IF Request.params.arguments.t \in {"absent", "map"}
        THEN IsTextResult(Response)
        ELSE /\ HasError(Response) /\ ~HasResult(Response)
             /\ Response.error.code = InternalError

\* read_file called with arguments {} : no path at all.
C6_Witness ==
    /\ CallsRegisteredTool
    /\ Request.params.name = "read_file"
    /\ Request.params.arguments = [t |-> "map", path |-> ABSENT]
    /\ IsTextResult(Response)

KnownMethods == {"initialize", "tools/list", "tools/call"}

(* C7: a request whose method is none of initialize, tools/list and        *)
(* tools/call, a missing method included, gets the error -32601 whatever   *)
(* its id and params: never -32603, never a result.                        *)
C7_UnknownMethod ==
    (Served /\ Request.method \notin KnownMethods) =>
        /\ HasError(Response) /\ ~HasResult(Response)
        /\ Response.error.code = MethodNotFound
        /\ Response.error.code # InternalError

\* A request with no method, whose params is no object.
C7_Witness ==
    /\ Served
    /\ Request.method = ABSENT
    /\ Request.params.t = "nonmap"
    /\ Request.id = "1"
    /\ HasError(Response)

(* C8: a tools/call whose params.name is no registered tool, or is absent, *)
(* gets the error -32603 with the request's id: not -32601, not a result.  *)
(* Every exception raised in the tools/call branch (params or arguments    *)
(* that are no mapping) is reported as -32603 too.                         *)
C8_UnknownTool ==
    (/\ Served
     /\ Request.method = "tools/call"
     /\ \/ Request.params.t # "map"
        \/ Request.params.name \notin {"list_files", "read_file"}
        \/ Request.params.arguments.t = "nonmap") =>
        /\ HasError(Response) /\ ~HasResult(Response)
        /\ Response.error.code = InternalError
        /\ Response.error.code # MethodNotFound
        /\ Response.id = Get(Request.id)

\* delete_file is no registered tool.
C8_Witness ==
    /\ Served
    /\ Request.method = "tools/call"
    /\ Request.params.t = "map"
    /\ Request.params.name = "delete_file"
    /\ Request.id = "2"
    /\ Response.error.code = InternalError

\* The names of the tools of a tools/list result, in order.
ToolNamesOf(r) == [i \in 1..Len(r.result.tools) |-> r.result.tools[i].name]

(* C9: after any sequence of requests tools/list returns list_files        *)
(* followed by read_file, whatever params it carries, and no step changes  *)
(* the registry.                                                           *)
C9_ToolsListStable ==
    /\ tools = Registry
    /\ (Served /\ Request.method = "tools/list") =>
        /\ HasResult(Response) /\ ~HasError(Response)
        /\ ToolNamesOf(Response) = <<"list_files", "read_file">>

\* tools/list as the third line of the input, with params that is no object.
C9_Witness ==
    /\ Served
    /\ Request.method = "tools/list"
    /\ Request.params.t = "nonmap"
    /\ nRead = 3
    /\ nFlushed = 2

(* C10: the response to a request is a function of the request and of the  *)
(* filesystem at that moment alone: after any prior sequence of lines it   *)
(* is what a freshly constructed server answers.                           *)
C10_Stateless ==
    Served => Response = handle_request(Request, Registry, fs)

\* tools/list answered after two earlier lines have been answered.
C10_Witness ==
    /\ Served
    /\ Request.method = "tools/list"
    /\ nFlushed = 2
    /\ Len(Response.result.tools) = 2

\* The text of the one content item of a tool result.
TextOf(r) == r.result.content[1].text

\* A tools/call of the named tool whose arguments is absent or a mapping.
CallsTool(name) ==
    /\ CallsRegisteredTool
    /\ Request.params.name = name
    /\ Request.params.arguments.t \in {"absent", "map"}

(* C17: read_file on an existing regular file compares the size of the     *)
(* filesystem metadata with 1,048,576 before opening the file: a size      *)
(* above it (1,048,577) gives the "too large" message without the file     *)
(* being opened; a size up to and including it has the file opened, and    *)
(* gives its contents when the file can be read and decoded.               *)
C17_SizeLimit ==
    (/\ CallsTool("read_file")
     /\ Request.params.arguments.path \in Paths
     /\ fs[Request.params.arguments.path].kind = "file") =>
        LET path == Request.params.arguments.path
            node == fs[path]
        IN  IF node.size > 1048576
            THEN /\ TextOf(Response)[1] = "Error: File is too large (max 1MB)"
                 /\ ~ReadFileSteps(path, fs).opened
            ELSE /\ TextOf(Response)[1] # "Error: File is too large (max 1MB)"
                 /\ ReadFileSteps(path, fs).opened
                 /\ (node.utf8 /\ ~node.denied) =>
                        TextOf(Response) = <<"Contents of", path, <<"content", node.size>>>>

\* read_file of a file of 1,048,577 bytes.
C17_Witness ==
    /\ CallsTool("read_file")
    /\ Request.params.arguments.path = "f"
    /\ fs["f"].kind = "file"
    /\ fs["f"].size = 1048577
    /\ TextOf(Response)[1] = "Error: File is too large (max 1MB)"

\* The path a list_files call lists: "." when arguments has none.
ListedPath ==
    IF Request.params.arguments.path = ABSENT THEN "." ELSE Request.params.arguments.path

\* The children of a directory that are regular files or directories.
FilesAndDirs(node) == { c \in node.entries : c.kind \in {"file", "dir"} }

\* The annotated line of a child.
Annotated(c) == IF c.kind = "file" THEN FileLine(c) ELSE DirLine(c)

\* What C19 says of a list_files call on path p whose node is n, the text
\* being t; whenReadable is the condition under which it says it.
ListFilesDecides(p, n, t, whenReadable) ==
    IF n.kind = "missing" THEN t = <<"Error: Path does not exist", p, <<>>>>
    ELSE IF n.kind # "dir" THEN t = <<"Error: Path is not a directory", p, <<>>>>
    ELSE whenReadable =>
        /\ (t[1] = "Directory is empty") = (FilesAndDirs(n) = {})
        /\ FilesAndDirs(n) = {} => t = <<"Directory is empty", p, <<>>>>
        /\ FilesAndDirs(n) # {} =>
            /\ t[1] = "Contents of" /\ t[2] = p
            /\ Len(t[3]) = Cardinality(FilesAndDirs(n))
            /\ { t[3][i] : i \in 1..Len(t[3]) } = { Annotated(c) : c \in FilesAndDirs(n) }
            /\ \A i, j \in 1..Len(t[3]) : i < j => StrLess(t[3][i], t[3][j])

(* C19, as claimed: list_files gives "does not exist" for a nonexistent    *)
(* path, "is not a directory" for an existing non-directory, and otherwise *)
(* lists exactly the children that are files (with size) or directories    *)
(* (with trailing marker), sorted by the full annotated line, giving "is   *)
(* empty" exactly when there is no such child.                             *)
C19_ListFilesAsClaimed ==
    (CallsTool("list_files") /\ ListedPath \in Paths) =>
        ListFilesDecides(ListedPath, fs[ListedPath], TextOf(Response), TRUE)

(* C19, amended: for a path that is a string, list_files gives "does not   *)
(* exist" for a nonexistent path and "is not a directory" for an existing  *)
(* non-directory; otherwise, when the directory can be enumerated, it      *)
(* lists exactly the children that are files or directories, sorted by the *)
(* full annotated line, and gives "is empty" exactly when there is none;   *)
(* when enumerating the directory raises, or the path is no string, it     *)
(* gives the "Error listing files" message.                                *)
C19_ListFilesDecides ==
    CallsTool("list_files") =>
        IF ListedPath \in Paths
        THEN /\ ListFilesDecides(ListedPath, fs[ListedPath], TextOf(Response),
                                 ~fs[ListedPath].denied)
             /\ (fs[ListedPath].kind = "dir" /\ fs[ListedPath].denied) =>
                    TextOf(Response)[1] = "Error listing files"
        ELSE TextOf(Response)[1] = "Error listing files"

\* A directory holding a file, a directory and a socket is listed: the
\* directory line sorts before the file line, against the order of the names.
C19_Witness ==
    /\ CallsTool("list_files")
    /\ ListedPath = "f"
    /\ fs["f"] = DirNode(SomeEntries, FALSE)
    /\ TextOf(Response)[3] = <<DirLine([name |-> NameSub]), FileLine([name |-> NameA, size |-> 10])>>

(* C20: a list_files call whose params.arguments is absent, or is a        *)
(* mapping without path, gets the response of the same request with path   *)
(* "."; for read_file too, absent arguments get the response of the empty  *)
(* mapping.                                                                *)
C20_DefaultPath ==
    /\ (CallsTool("list_files") /\ Request.params.arguments.path = ABSENT) =>
        Response = handle_request(
            [Request EXCEPT !.params.arguments = [t |-> "map", path |-> "."]], tools, fs)
    /\ (CallsRegisteredTool /\ Request.params.arguments.t = "absent") =>
        Response = handle_request(
            [Request EXCEPT !.params.arguments = [t |-> "map", path |-> ABSENT]], tools, fs)

\* list_files called with no arguments lists the working directory.
C20_Witness ==
    /\ CallsTool("list_files")
    /\ Request.params.arguments.t = "absent"
    /\ fs["."] = DirNode(SomeEntries, FALSE)
    /\ TextOf(Response)[1] = "Contents of"
    /\ TextOf(Response)[2] = "."


----------------------------------------------------------------------------
(* What the properties of the session speak of *)

\* The last call that returned is one of the three methods.
Wrapped == ret.op \in {"initialize", "list_tools", "call_tool"}
\* The last call that returned got past the write of its request.
Wrote == ret.op # "none" /\ ret.wrote
\* send_request raised in the last call that returned.
Failed == ret.op # "none" /\ ret.outcome.raised
\* Requests and responses under way between the client and its child.
Outstanding == Len(toServer) + Len(stdout) + Len(toClient)
\* This step writes a request to the child.
Writes == Len(sentIds') > Len(sentIds)

(* C11: the ids written to the child are strictly increasing and below the *)
(* counter; when every call so far got as far as its write they are 1, 2,  *)
(* 3, ...; and no step decreases the counter.                              *)
C11_IdsIncrease ==
    /\ [](/\ \A i, j \in 1..Len(sentIds) : i < j => sentIds[i] < sentIds[j]
          /\ \A i \in 1..Len(sentIds) : sentIds[i] >= 1 /\ sentIds[i] < self_request_id
          /\ Len(sentIds) = self_request_id - 1 =>
                \A i \in 1..Len(sentIds) : sentIds[i] = i)
    /\ [][self_request_id' >= self_request_id]_vars

\* Two requests written, the second call having failed after its write.
C11_Witness ==
    /\ sentIds = <<1, 2>>
    /\ Wrote /\ Failed
    /\ ret.id = 2

(* C12: at most one request or response is under way at every moment, and  *)
(* a request is written only by a client that is in no call and while      *)
(* nothing is under way.                                                   *)
C12_HalfDuplex ==
    /\ [](Outstanding <= 1)
    /\ [][Writes => cpc = "idle" /\ Outstanding = 0 /\ Outstanding' = 1]_vars

\* A second request under way after a call that ended in a local failure.
C12_Witness ==
    /\ Len(sentIds) = 2
    /\ Outstanding = 1
    /\ cpc = "reading"
    /\ Failed

(* C13: a call on a client whose child is not running, never started or    *)
(* exited, ends in a local error of send_request and no step writes a      *)
(* request while no child runs; a call waiting for its response when the   *)
(* child has exited with nothing left to read ends in the RuntimeError of  *)
(* send_request.                                                           *)
C13_LocalFailure ==
    /\ []((ret.op # "none" /\ ret.at # "running") =>
            /\ ret.outcome.raised
            /\ ~ret.wrote
            /\ ret.outcome.error \in {"RuntimeError: Server not started", "BrokenPipeError"}
            /\ ret.at = "none" => ret.outcome.error = "RuntimeError: Server not started")
    /\ [][child # "running" => sentIds' = sentIds /\ toServer' = toServer]_vars
    /\ [][(cpc = "reading" /\ toClient = <<>> /\ child = "exited"
                /\ cpc' = "idle" /\ command' = command) =>
            /\ ret'.outcome.raised
            /\ ret'.outcome.error = "RuntimeError: No response from server"]_vars

\* A call on a client that stop_server has shut down.
C13_Witness ==
    /\ nStopped >= 1
    /\ ret.op = "send_request"
    /\ ret.at = "exited"
    /\ ret.outcome.error = "BrokenPipeError"

\* The response read is one with result in the shape the method reads.
WellFormed(r) ==
    /\ ~r.outcome.raised
    /\ r.outcome.item.kind = "object"
    /\ "result" \in DOMAIN r.outcome.item.value
    /\ r.op = "list_tools" => "tools" \in DOMAIN r.outcome.item.value.result
    /\ r.op = "call_tool" =>
        /\ "content" \in DOMAIN r.outcome.item.value.result
        /\ \/ r.outcome.item.value.result.content = <<>>
           \/ "text" \in DOMAIN r.outcome.item.value.result.content[1]

(* C14: initialize, list_tools and call_tool never raise; on a response    *)
(* with result they return true, the tools of the result, and the text of  *)
(* the first content item or the fallback literal; on a transport failure, *)
(* an error response or a malformed response they return false, the empty  *)
(* sequence, and a string.                                                 *)
C14_NeverPropagates ==
    Wrapped =>
        /\ ret.kind # "raise"
        /\ IF WellFormed(ret)
           THEN LET result == ret.outcome.item.value.result IN
                /\ ret.op = "initialize" => ret.value = TRUE
                /\ ret.op = "list_tools" => ret.value = result.tools
                /\ ret.op = "call_tool" =>
                    ret.value = IF result.content = <<>> THEN <<"No content returned">>
                                ELSE result.content[1].text
           ELSE /\ ret.op = "initialize" => ret.value = FALSE
                /\ ret.op = "list_tools" => ret.value = <<>>
                /\ ret.op = "call_tool" => ret.kind = "text"

(* C15: interactive_session is left only by quit or by an interrupt, a     *)
(* failed call leaving it at its prompt; and when main has ended, a child  *)
(* that was started has been terminated and waited for by stop_server.     *)
C15_SessionEnds ==
    /\ [][(mpc = "interactive" /\ mpc' # "interactive") =>
            command' \in {"quit", "interrupt"}]_vars
    /\ [](mpc = "exited" =>
            (process = "Popen" => child = "exited" /\ nTerminate >= 1 /\ nStopped >= 1))

\* main has ended on quit, after a call of the interactive session failed.
C15_Witness ==
    /\ mpc = "exited"
    /\ command = "quit"
    /\ process = "Popen"
    /\ ret.op = "call_tool" /\ ret.id >= 4
    /\ Failed

(* C16: when the client was never started, or stop_server has already      *)
(* stopped its child and none runs, no step calls terminate or prints that *)
(* the server stopped.                                                     *)
C16_StopIsNoOp ==
    [][(process = "None" \/ (nStopped >= 1 /\ child # "running")) =>
            nTerminate' = nTerminate /\ nStopped' = nStopped]_vars

(* C18: with the dispatcher as the child, the response a call reads is the *)
(* dispatcher's answer to the request that call wrote, and the response    *)
(* send_request returns carries the id the call assigned.                  *)
C18_ResponseMatchesCall ==
    peer = "dispatcher" =>
        /\ (cpc = "reading" /\ toClient # <<>>) =>
            /\ Head(toClient) = ObjectLine(handle_request(RequestLine(call).request, tools, fs))
            /\ Head(toClient).value.id = IdText(call.id)
        /\ (Wrote /\ ~Failed) =>
            /\ ret.outcome.item.kind = "object"
            /\ ret.outcome.item.value.id = IdText(ret.id)

\* send_request has returned the dispatcher's answer to the second request.
C18_Witness ==
    /\ peer = "dispatcher"
    /\ ret.op = "send_request"
    /\ Wrote /\ ~Failed
    /\ ret.id = 2
    /\ ret.outcome.item.value.id = "2"

====
